---- MODULE Spec2Model ----
(***************************************************************************)
(* Dragon Watch correlation engine: threat levels, confidence, the         *)
(* correlation pass (correlate_events_batch) and the alert upsert with     *)
(* monotonic escalation (upsert_alert).                                    *)
(*                                                                         *)
(* Scores are floats in the source.  Here a score is an integer number of  *)
(* 1/ScoreUnit points, so that every sub-score and every composite the     *)
(* engine can compute from integer counts is represented exactly.          *)
(* Timestamps are integer seconds.                                         *)
(***************************************************************************)
EXTENDS Integers, Sequences, FiniteSets, TLC

VARIABLES
    alerts,     \* the alerts table: a sequence of rows, a row's id is its index
    clock,      \* the wall clock (seconds): datetime.now(timezone.utc)
    passes,     \* number of correlation passes started so far
    last,       \* what the last finished pass returned and did to the store
    procs,      \* the concurrent request handlers of POST /api/correlate
    fn,         \* the last call of a pure function: its arguments and result
    engine,     \* the demo playback engine (DemoEngine) and its playback tasks
    ais         \* the AIS stream: the _running flag and connect_ais_stream's position

vars == <<alerts, clock, passes, last, procs, fn, engine, ais>>

---------------------------------------------------------------------------
(* Bounds of the model *)

MaxPasses == 3      \* correlation passes per behaviour
MaxCount == 8       \* largest narrative_count / movement_count tried
MaxNarratives == 2  \* longest narrative_events list handed to a function
MaxMovements == 3   \* longest movement_events list handed to a function

---------------------------------------------------------------------------
(* Program constants *)

GREEN_THRESHOLD == 30
RED_THRESHOLD == 70
CORRELATION_WINDOW_HOURS == 72
SecondsPerHour == 3600
ScoreUnit == 300
OUTLET_MIN == 1
OUTLET_MAX == 4
PHRASE_MIN == 0
PHRASE_MAX == 10
VOLUME_MIN == 0
VOLUME_MAX == 50
WeightOutlet == 30
WeightPhrase == 25
WeightVolume == 20
WeightGeo == 25
NarrativeWeight == 15
NarrativeCap == 40
MovementWeight == 5
MovementCap == 30
GeoBonus == 20
TimeBonus == 10
ConfidenceCap == 95

Min(a, b) == IF a <= b THEN a ELSE b
Max(a, b) == IF a >= b THEN a ELSE b

---------------------------------------------------------------------------
(* src/models/threat_levels.py *)

Levels == {"GREEN", "AMBER", "RED"}

\* ThreatLevel(Enum): GREEN = 1, AMBER = 2, RED = 3
LevelValue(l) == CASE l = "GREEN" -> 1 [] l = "AMBER" -> 2 [] l = "RED" -> 3

can_transition_to_strict(self, new_level) == LevelValue(new_level) > LevelValue(self)

\* ThreatLevel.can_transition_to
can_transition_to(self, new_level) == LevelValue(new_level) >= LevelValue(self)

determine_threat_level_inclusive(composite_score) ==
    IF composite_score <= GREEN_THRESHOLD * ScoreUnit THEN "GREEN"
    ELSE IF composite_score <= RED_THRESHOLD * ScoreUnit THEN "AMBER"
    ELSE "RED"

\* determine_threat_level; composite_score in 1/ScoreUnit points
determine_threat_level(composite_score) ==
    IF composite_score < GREEN_THRESHOLD * ScoreUnit THEN "GREEN"
    ELSE IF composite_score < RED_THRESHOLD * ScoreUnit THEN "AMBER"
    ELSE "RED"

calculate_confidence_uncapped(narrative_count, movement_count, geo_match) ==
    Min(narrative_count * NarrativeWeight, NarrativeCap)
        + Min(movement_count * MovementWeight, MovementCap)
        + (IF geo_match THEN GeoBonus ELSE 0) + TimeBonus

calculate_confidence_flat_movement(narrative_count, movement_count, geo_match) ==
    Min(Min(narrative_count * NarrativeWeight, NarrativeCap)
            + Min(movement_count, 1) * MovementCap
            + (IF geo_match THEN GeoBonus ELSE 0) + TimeBonus,
        ConfidenceCap)

\* calculate_confidence
calculate_confidence(narrative_count, movement_count, geo_match) ==
    LET narrative_confidence == Min(narrative_count * NarrativeWeight, NarrativeCap)
        movement_confidence == Min(movement_count * MovementWeight, MovementCap)
        geo_bonus == IF geo_match THEN GeoBonus ELSE 0
        time_bonus == TimeBonus
        total == narrative_confidence + movement_confidence + geo_bonus + time_bonus
    IN  Min(total, ConfidenceCap)

---------------------------------------------------------------------------
(* Optional values (Python None) and text *)

None == <<>>
Some(x) == <<x>>
IsNone(o) == o = <<>>
Get(o) == o[1]

UpperCase == <<"A","B","C","D","E","F","G","H","I","J","K","L","M",
               "N","O","P","Q","R","S","T","U","V","W","X","Y","Z">>
LowerCase == <<"a","b","c","d","e","f","g","h","i","j","k","l","m",
               "n","o","p","q","r","s","t","u","v","w","x","y","z">>

\* str.lower() on one character
LowerChar(c) ==
    IF \E i \in 1..Len(UpperCase) : UpperCase[i] = c
    THEN LowerCase[CHOOSE i \in 1..Len(UpperCase) : UpperCase[i] = c]
    ELSE c

\* str.lower()
Lower(text) == [i \in 1..Len(text) |-> LowerChar(text[i])]

\* keyword in text (substring test)
Contains(text, keyword) ==
    \E i \in 0..(Len(text) - Len(keyword)) :
        \A j \in 1..Len(keyword) : text[i + j] = keyword[j]

---------------------------------------------------------------------------
(* src/utils/geo_utils.py *)

LON_MIN == 118
LAT_MIN == 23
LON_MAX == 122
LAT_MAX == 26

\* is_in_taiwan_strait: shapely box(...).contains(Point(lon, lat)), which holds
\* for the points of the interior of the box
is_in_taiwan_strait(lat, lon) ==
    /\ LON_MIN < lon /\ lon < LON_MAX
    /\ LAT_MIN < lat /\ lat < LAT_MAX

GeoKeywords == << <<"t","a","i","w","a","n">>,
                  <<"s","t","r","a","i","t">>,
                  <<"f","u","j","i","a","n">> >>

\* check_narrative_geo_match; geographic_focus is None or Some(text)
check_narrative_geo_match(geographic_focus) ==
    IF IsNone(geographic_focus) \/ Get(geographic_focus) = <<>> THEN FALSE
    ELSE LET focus_lower == Lower(Get(geographic_focus))
         IN  \E k \in 1..Len(GeoKeywords) : Contains(focus_lower, GeoKeywords[k])

normalize_min_max_unclamped(value, min_val, max_val) ==
    IF max_val = min_val THEN 50 * ScoreUnit
    ELSE ((value - min_val) * 100 * ScoreUnit) \div (max_val - min_val)

\* normalize_min_max; the result is in 1/ScoreUnit points
normalize_min_max(value, min_val, max_val) ==
    IF max_val = min_val THEN 50 * ScoreUnit
    ELSE LET normalized == ((value - min_val) * 100 * ScoreUnit) \div (max_val - min_val)
         IN  Max(0, Min(100 * ScoreUnit, normalized))

---------------------------------------------------------------------------
(* Events.  created_at is the ISO string of the row: missing, malformed, or   *)
(* the instant it denotes, in seconds.                                        *)

Ts(t) == [kind |-> "iso", secs |-> t]
MissingTs == [kind |-> "missing", secs |-> 0]
MalformedTs == [kind |-> "malformed", secs |-> 0]

WindowSeconds == CORRELATION_WINDOW_HOURS * SecondsPerHour
StartTime == 2 * WindowSeconds

FujianCoast == <<"F","U","J","I","A","N"," ","c","o","a","s","t">>

\* The rows the external collaborators may have deposited.  Narrative 1 is old
\* and weak, narrative 2 recent and strong; movement 1 lies inside the region,
\* movement 2 carries no coordinates and is dated a minute after the start
\* (clock skew of the depositing collaborator), more than the window after
\* narrative 1.
NarrPool ==
    { [id |-> 1, created_at |-> Ts(StartTime - WindowSeconds + 60), outlet_count |-> 1,
       phrases |-> 0, geographic_focus |-> None],
      [id |-> 2, created_at |-> Ts(StartTime - 60), outlet_count |-> 4,
       phrases |-> 10, geographic_focus |-> Some(FujianCoast)] }

MovePool ==
    { [id |-> 1, created_at |-> Ts(StartTime - 120), location_lat |-> Some(24),
       location_lon |-> Some(120)],
      [id |-> 2, created_at |-> Ts(StartTime + 61), location_lat |-> None,
       location_lon |-> None] }

\* the rows a table can hold when a pass fetches it
Tables(pool) == SUBSET pool

\* fetch_narrative_events / fetch_movement_events: the rows with
\* created_at >= now - hours, ordered by created_at descending (rows with equal
\* created_at in either order)
FetchResults(table, now, hours) ==
    LET cutoff == now - hours * SecondsPerHour
        rows == {e \in table : e.created_at.kind = "iso" /\ e.created_at.secs >= cutoff}
        n == Cardinality(rows)
    IN  {s \in [1..n -> rows] :
            /\ \A i, j \in 1..n : i # j => s[i] # s[j]
            /\ \A i \in 1..n, j \in 1..n :
                   i < j => s[i].created_at.secs >= s[j].created_at.secs}

fetch_narrative_events(table, now) == FetchResults(table, now, CORRELATION_WINDOW_HOURS)
fetch_movement_events(table, now) == FetchResults(table, now, CORRELATION_WINDOW_HOURS)

Abs(x) == IF x < 0 THEN -x ELSE x

---------------------------------------------------------------------------
(* src/processors/correlate_events.py: matching and scoring *)

\* datetime.fromisoformat raises ValueError on a malformed string
ParseFails(ts) == ts.kind = "malformed"

MatchedMovements_strict(narr_secs, movement_events, window_hours) ==
    LET InWindow(m) ==
            /\ m.created_at.kind = "iso"
            /\ Abs(narr_secs - m.created_at.secs) < window_hours * SecondsPerHour
    IN  SelectSeq(movement_events, InWindow)

MatchedMovements_prepend(narr_secs, movement_events, window_hours) ==
    LET InWindow(m) ==
            /\ m.created_at.kind = "iso"
            /\ Abs(narr_secs - m.created_at.secs) <= window_hours * SecondsPerHour
        kept == SelectSeq(movement_events, InWindow)
    IN  [k \in 1..Len(kept) |-> kept[Len(kept) + 1 - k]]

MatchedMovements_unwindowed(narr_secs, movement_events, window_hours) ==
    LET HasTime(m) == m.created_at.kind = "iso"
    IN  SelectSeq(movement_events, HasTime)

\* MatchedMovements with half the window
MatchedMovements_half_window(narr_secs, movement_events, window_hours) ==
    LET InWindow(m) ==
            /\ m.created_at.kind = "iso"
            /\ Abs(narr_secs - m.created_at.secs) <= (window_hours \div 2) * SecondsPerHour
    IN  SelectSeq(movement_events, InWindow)

\* the inner loop of match_events_by_time_window for one narrative timestamp
MatchedMovements(narr_secs, movement_events, window_hours) ==
    LET InWindow(m) ==
            /\ m.created_at.kind = "iso"
            /\ Abs(narr_secs - m.created_at.secs) <= window_hours * SecondsPerHour
    IN  SelectSeq(movement_events, InWindow)

RECURSIVE MatchFrom(_, _, _, _)
\* the outer loop of match_events_by_time_window from narrative event i on;
\* [raised, matches]
MatchFrom(i, narrative_events, movement_events, window_hours) ==
    IF i > Len(narrative_events) THEN [raised |-> FALSE, matches |-> <<>>]
    ELSE LET narr_event == narrative_events[i]
             rest == MatchFrom(i + 1, narrative_events, movement_events, window_hours)
         IN  IF narr_event.created_at.kind = "missing" THEN rest
             ELSE IF ParseFails(narr_event.created_at)
                     \/ \E k \in 1..Len(movement_events) :
                            ParseFails(movement_events[k].created_at)
             THEN [raised |-> TRUE, matches |-> <<>>]
             ELSE LET matched_movements ==
                          MatchedMovements(narr_event.created_at.secs,
                                           movement_events, window_hours)
                  IN  IF rest.raised THEN rest
                      ELSE IF matched_movements # <<>>
                      THEN [raised |-> FALSE,
                            matches |-> <<[narrative |-> narr_event,
                                           movements |-> matched_movements]>>
                                        \o rest.matches]
                      ELSE rest

match_events_by_time_window(narrative_events, movement_events, window_hours) ==
    MatchFrom(1, narrative_events, movement_events, window_hours)

calculate_composite_score_unit_geo(narrative_event, matched_movements, geo_match) ==
    LET outlet_score ==
            normalize_min_max(narrative_event.outlet_count, OUTLET_MIN, OUTLET_MAX)
        phrase_score == normalize_min_max(narrative_event.phrases, PHRASE_MIN, PHRASE_MAX)
        volume_score == normalize_min_max(Len(matched_movements), VOLUME_MIN, VOLUME_MAX)
        geo_score == IF geo_match THEN ScoreUnit ELSE 0
        composite100 == outlet_score * WeightOutlet + phrase_score * WeightPhrase
                            + volume_score * WeightVolume + geo_score * WeightGeo
    IN  [composite |-> composite100 \div 100,
         sub_scores |-> [outlet_score |-> outlet_score, phrase_score |-> phrase_score,
                         volume_score |-> volume_score, geo_score |-> geo_score]]

\* calculate_composite_score: [composite, sub_scores]; composite is in
\* 1/ScoreUnit points, so the weights are applied in hundredths exactly
calculate_composite_score(narrative_event, matched_movements, geo_match) ==
    LET outlet_count == narrative_event.outlet_count
        phrase_count == narrative_event.phrases
        post_volume == Len(matched_movements)
        geo_proximity == IF geo_match THEN 100 * ScoreUnit ELSE 0
        outlet_score == normalize_min_max(outlet_count, OUTLET_MIN, OUTLET_MAX)
        phrase_score == normalize_min_max(phrase_count, PHRASE_MIN, PHRASE_MAX)
        volume_score == normalize_min_max(post_volume, VOLUME_MIN, VOLUME_MAX)
        geo_score == geo_proximity
        composite100 == outlet_score * WeightOutlet + phrase_score * WeightPhrase
                            + volume_score * WeightVolume + geo_score * WeightGeo
    IN  [composite |-> composite100 \div 100,
         sub_scores |-> [outlet_score |-> outlet_score, phrase_score |-> phrase_score,
                         volume_score |-> volume_score, geo_score |-> geo_score]]

\* build_evidence_summary: the three values the sentence is formatted from
build_evidence_summary(narrative_event, matched_movements) ==
    <<narrative_event.outlet_count, narrative_event.geographic_focus,
      Len(matched_movements)>>

---------------------------------------------------------------------------
(* src/processors/correlate_events.py: correlate_events_batch, steps 2 to 5 *)

Region == "Taiwan Strait"

\* step 3 for one match: the CorrelationResult built from it
Correlation(match, now) ==
    LET narrative == match.narrative
        movements == match.movements
        narrative_geo == check_narrative_geo_match(narrative.geographic_focus)
        movement_geo ==
            \E k \in 1..Len(movements) :
                /\ ~IsNone(movements[k].location_lat)
                /\ ~IsNone(movements[k].location_lon)
                /\ is_in_taiwan_strait(Get(movements[k].location_lat),
                                       Get(movements[k].location_lon))
        geo_match == narrative_geo /\ movement_geo
        scored == calculate_composite_score(narrative, movements, geo_match)
    IN  [narrative_event_ids |-> <<narrative.id>>,
         movement_event_ids |-> [k \in 1..Len(movements) |-> movements[k].id],
         composite_score |-> scored.composite,
         sub_scores |-> scored.sub_scores,
         threat_level |-> "",
         confidence |-> 0,
         geo_match |-> geo_match,
         region |-> Region,
         evidence_summary |-> build_evidence_summary(narrative, movements),
         detected_at |-> now]

MaxIndex_last(correlations) ==
    CHOOSE i \in 1..Len(correlations) :
        /\ \A j \in 1..Len(correlations) :
               correlations[j].composite_score <= correlations[i].composite_score
        /\ \A j \in (i + 1)..Len(correlations) :
               correlations[j].composite_score < correlations[i].composite_score

\* max(correlations, key=lambda c: c.composite_score): the first of the maxima
MaxIndex(correlations) ==
    CHOOSE i \in 1..Len(correlations) :
        /\ \A j \in 1..Len(correlations) :
               correlations[j].composite_score <= correlations[i].composite_score
        /\ \A j \in 1..(i - 1) :
               correlations[j].composite_score < correlations[i].composite_score

NoCorrelation == [narrative_event_ids |-> <<>>, movement_event_ids |-> <<>>,
                  composite_score |-> 0,
                  sub_scores |-> [outlet_score |-> 0, phrase_score |-> 0,
                                  volume_score |-> 0, geo_score |-> 0],
                  threat_level |-> "", confidence |-> 0, geo_match |-> FALSE,
                  region |-> Region, evidence_summary |-> <<>>, detected_at |-> 0]

Pipeline_movements_first(narrative_events, movement_events, now) ==
    IF movement_events = <<>>
    THEN [status |-> "no_movement_events", correlations_found |-> 0,
          correlation |-> NoCorrelation]
    ELSE [status |-> "no_narrative_events", correlations_found |-> 0,
          correlation |-> NoCorrelation]

Pipeline_no_correlations(narrative_events, movement_events, now) ==
    IF narrative_events = <<>>
    THEN [status |-> "no_narrative_events", correlations_found |-> 0,
          correlation |-> NoCorrelation]
    ELSE IF movement_events = <<>>
    THEN [status |-> "no_movement_events", correlations_found |-> 0,
          correlation |-> NoCorrelation]
    ELSE [status |-> "no_correlations", correlations_found |-> 0,
          correlation |-> NoCorrelation]

\* Pipeline with the confidence computed over all the correlated narratives
Pipeline_counts_all_narratives(narrative_events, movement_events, now) ==
    IF narrative_events = <<>>
    THEN [status |-> "no_narrative_events", correlations_found |-> 0,
          correlation |-> NoCorrelation]
    ELSE IF movement_events = <<>>
    THEN [status |-> "no_movement_events", correlations_found |-> 0,
          correlation |-> NoCorrelation]
    ELSE LET matched == match_events_by_time_window(narrative_events, movement_events,
                                                    CORRELATION_WINDOW_HOURS)
         IN  IF matched.raised
             THEN [status |-> "error", correlations_found |-> 0,
                   correlation |-> NoCorrelation]
             ELSE IF matched.matches = <<>>
             THEN [status |-> "no_temporal_matches", correlations_found |-> 0,
                   correlation |-> NoCorrelation]
             ELSE LET matches == matched.matches
                      correlations ==
                          [i \in 1..Len(matches) |-> Correlation(matches[i], now)]
                      highest_correlation == correlations[MaxIndex(correlations)]
                      threat_level ==
                          determine_threat_level(highest_correlation.composite_score)
                      confidence ==
                          calculate_confidence(
                              Len(correlations),
                              Len(highest_correlation.movement_event_ids),
                              highest_correlation.geo_match)
                  IN  [status |-> "upsert", correlations_found |-> Len(correlations),
                       correlation |-> [highest_correlation EXCEPT
                                            !.threat_level = threat_level,
                                            !.confidence = confidence]]

\* correlate_events_batch from the fetched streams up to the call of upsert_alert:
\* status "upsert" stands for reaching step 6 with highest_correlation
Pipeline(narrative_events, movement_events, now) ==
    IF narrative_events = <<>>
    THEN [status |-> "no_narrative_events", correlations_found |-> 0,
          correlation |-> NoCorrelation]
    ELSE IF movement_events = <<>>
    THEN [status |-> "no_movement_events", correlations_found |-> 0,
          correlation |-> NoCorrelation]
    ELSE LET matched == match_events_by_time_window(narrative_events, movement_events,
                                                    CORRELATION_WINDOW_HOURS)
         IN  IF matched.raised
             THEN [status |-> "error", correlations_found |-> 0,
                   correlation |-> NoCorrelation]
             ELSE IF matched.matches = <<>>
             THEN [status |-> "no_temporal_matches", correlations_found |-> 0,
                   correlation |-> NoCorrelation]
             ELSE LET matches == matched.matches
                      correlations ==
                          [i \in 1..Len(matches) |-> Correlation(matches[i], now)]
                      highest_correlation == correlations[MaxIndex(correlations)]
                      threat_level ==
                          determine_threat_level(highest_correlation.composite_score)
                      confidence ==
                          calculate_confidence(
                              Len(highest_correlation.narrative_event_ids),
                              Len(highest_correlation.movement_event_ids),
                              highest_correlation.geo_match)
                  IN  [status |-> "upsert", correlations_found |-> Len(correlations),
                       correlation |-> [highest_correlation EXCEPT
                                            !.threat_level = threat_level,
                                            !.confidence = confidence]]

---------------------------------------------------------------------------
(* src/processors/correlate_events.py: upsert_alert *)

ActiveIds_wrong_region(table) ==
    {i \in 1..Len(table) : table[i].region = "Taiwan" /\ IsNone(table[i].resolved_at)}

\* the ids of the rows selected by .eq("region", ...).is_("resolved_at", "null")
ActiveIds(table) ==
    {i \in 1..Len(table) : table[i].region = Region /\ IsNone(table[i].resolved_at)}

\* existing_response.data: the selected rows, in an order the store chooses
QueryResults(table) ==
    LET ids == ActiveIds(table)
        n == Cardinality(ids)
    IN  {[k \in 1..n |-> table[order[k]]] :
            order \in {o \in [1..n -> ids] : \A i, j \in 1..n : i # j => o[i] # o[j]}}

detection_history_entry(correlation) ==
    [detected_at |-> correlation.detected_at,
     score |-> correlation.composite_score,
     level |-> correlation.threat_level]

\* the fields both update_data and insert_data carry, given the history to store
AlertData(correlation, history, now) ==
    [threat_level |-> correlation.threat_level,
     threat_score |-> correlation.composite_score,
     confidence |-> correlation.confidence,
     sub_scores |-> correlation.sub_scores,
     correlation_metadata |->
         [narrative_event_ids |-> correlation.narrative_event_ids,
          movement_event_ids |-> correlation.movement_event_ids,
          evidence_summary |-> correlation.evidence_summary,
          detection_history |-> history],
     updated_at |-> now]

\* ThreatLevel[current_level_str], defaulting to GREEN on KeyError
ParseLevel(current_level_str) ==
    IF current_level_str \in Levels THEN current_level_str ELSE "GREEN"

UpsertPlan_touch(existing_data, correlation, now) ==
    IF existing_data # <<>>
    THEN LET existing_alert == existing_data[1]
             allowed == can_transition_to(ParseLevel(existing_alert.threat_level),
                                          correlation.threat_level)
             kept == [correlation EXCEPT
                          !.threat_level = existing_alert.threat_level,
                          !.composite_score = existing_alert.threat_score,
                          !.confidence = existing_alert.confidence,
                          !.sub_scores = existing_alert.sub_scores,
                          !.narrative_event_ids =
                              existing_alert.correlation_metadata.narrative_event_ids,
                          !.movement_event_ids =
                              existing_alert.correlation_metadata.movement_event_ids,
                          !.evidence_summary =
                              existing_alert.correlation_metadata.evidence_summary]
         IN  IF allowed
             THEN [op |-> "update", id |-> existing_alert.id,
                   data |-> AlertData(correlation,
                                Append(existing_alert.correlation_metadata.detection_history,
                                       detection_history_entry(correlation)),
                                now)]
             ELSE [op |-> "update", id |-> existing_alert.id,
                   data |-> AlertData(kept,
                                existing_alert.correlation_metadata.detection_history,
                                now)]
    ELSE [op |-> "insert", id |-> 0,
          data |-> AlertData(correlation, <<detection_history_entry(correlation)>>, now)]

UpsertPlan_replace_history(existing_data, correlation, now) ==
    IF existing_data # <<>>
    THEN IF ~can_transition_to(ParseLevel(existing_data[1].threat_level),
                               correlation.threat_level)
         THEN [op |-> "refused", id |-> existing_data[1].id,
               data |-> AlertData(correlation, <<>>, now)]
         ELSE [op |-> "update", id |-> existing_data[1].id,
               data |-> AlertData(correlation, <<detection_history_entry(correlation)>>,
                                  now)]
    ELSE [op |-> "insert", id |-> 0,
          data |-> AlertData(correlation, <<detection_history_entry(correlation)>>, now)]

UpsertPlan_unguarded(existing_data, correlation, now) ==
    IF existing_data # <<>>
    THEN [op |-> "update", id |-> existing_data[1].id,
          data |-> AlertData(correlation,
                             Append(existing_data[1].correlation_metadata.detection_history,
                                    detection_history_entry(correlation)),
                             now)]
    ELSE [op |-> "insert", id |-> 0,
          data |-> AlertData(correlation, <<detection_history_entry(correlation)>>, now)]

\* upsert_alert after its query returned existing_data: the store write it issues,
\* or "refused" when the monotonic check returns early
UpsertPlan(existing_data, correlation, now) ==
    IF existing_data # <<>>
    THEN LET existing_alert == existing_data[1]
             current_level == ParseLevel(existing_alert.threat_level)
             new_level == correlation.threat_level
         IN  IF ~can_transition_to(current_level, new_level)
             THEN [op |-> "refused", id |-> existing_alert.id,
                   data |-> AlertData(correlation, <<>>, now)]
             ELSE LET existing_history ==
                          Append(existing_alert.correlation_metadata.detection_history,
                                 detection_history_entry(correlation))
                  IN  [op |-> "update", id |-> existing_alert.id,
                       data |-> AlertData(correlation, existing_history, now)]
    ELSE [op |-> "insert", id |-> 0,
          data |-> AlertData(correlation, <<detection_history_entry(correlation)>>, now)]

\* the row the store keeps for an update or an insert
StoredRow(id, region, data) ==
    [id |-> id, region |-> region, resolved_at |-> None,
     threat_level |-> data.threat_level, threat_score |-> data.threat_score,
     confidence |-> data.confidence, sub_scores |-> data.sub_scores,
     correlation_metadata |-> data.correlation_metadata,
     updated_at |-> data.updated_at]

\* client.table("alerts").update(update_data).eq("id", ...): the row with that id
\* gets the fields of update_data and keeps its other fields
\* client.table("alerts").insert(insert_data): a new row, resolved_at null
ApplyWrite(table, plan, region) ==
    CASE plan.op = "update" ->
             [table EXCEPT ![plan.id] =
                 [@ EXCEPT !.threat_level = plan.data.threat_level,
                           !.threat_score = plan.data.threat_score,
                           !.confidence = plan.data.confidence,
                           !.sub_scores = plan.data.sub_scores,
                           !.correlation_metadata = plan.data.correlation_metadata,
                           !.updated_at = plan.data.updated_at]]
      [] plan.op = "insert" ->
             Append(table, StoredRow(Len(table) + 1, region, plan.data))
      [] OTHER -> table

---------------------------------------------------------------------------
(* correlate_events_batch as one serial pass *)

\* what the store can do to a pass: nothing, or raise in the fetch, in the query
\* for the active alert, or in the insert / update
Failures == {"none", "fetch", "query", "write"}

\* what a finished pass returned (status, correlations_found and, on success,
\* highest_score, threat_level, confidence and detected_at) and what it did to
\* the store: the streams it fetched (None when not recorded), whether it issued
\* the query for the active alert, the write it issued, and the alerts before it
\* error is None, or Some(what raised): str(e) of the exception caught
Summary(status, found, correlation, write, before, fetched, queried, error) ==
    [status |-> status, correlations_found |-> found,
     highest_score |-> correlation.composite_score,
     threat_level |-> correlation.threat_level,
     confidence |-> correlation.confidence,
     detected_at |-> correlation.detected_at,
     write |-> write, before |-> before,
     fetched |-> fetched, queried |-> queried, error |-> error]

NoPass == Summary("none", 0, NoCorrelation, "none", <<>>, None, FALSE, None)

PassOutcome_partial_write(narrative_events, movement_events, existing_data, failure, now, table) ==
    LET run == Pipeline(narrative_events, movement_events, now)
        plan == UpsertPlan(existing_data, run.correlation, now)
        fetched == Some([narratives |-> narrative_events, movements |-> movement_events])
        Error(streams, queried, what, after) ==
            [summary |-> Summary("error", 0, NoCorrelation, "none", table, streams,
                                 queried, Some(what)),
             alerts |-> after]
    IN  IF failure = "fetch" THEN Error(None, FALSE, "fetch", table)
        ELSE IF run.status = "error" THEN Error(fetched, FALSE, "fromisoformat", table)
        ELSE IF run.status # "upsert"
        THEN [summary |-> Summary(run.status, 0, NoCorrelation, "none", table, fetched,
                                  FALSE, None),
              alerts |-> table]
        ELSE IF failure = "query" THEN Error(fetched, TRUE, "query", table)
        ELSE IF plan.op = "refused"
        THEN [summary |-> Summary("success", run.correlations_found, run.correlation,
                                  "refused", table, fetched, TRUE, None),
              alerts |-> table]
        ELSE IF failure = "write"
        THEN Error(fetched, TRUE, "write",
                   ApplyWrite(table, [plan EXCEPT !.data.correlation_metadata =
                                         [@ EXCEPT !.detection_history = <<>>]],
                              run.correlation.region))
        ELSE [summary |-> Summary("success", run.correlations_found, run.correlation,
                                  plan.op, table, fetched, TRUE, None),
              alerts |-> ApplyWrite(table, plan, run.correlation.region)]

\* the whole of correlate_events_batch on the fetched streams, with upsert_alert:
\* [summary, alerts], the returned summary and the alerts table afterwards
PassOutcome(narrative_events, movement_events, existing_data, failure, now, table) ==
    LET run == Pipeline(narrative_events, movement_events, now)
        plan == UpsertPlan(existing_data, run.correlation, now)
        fetched == Some([narratives |-> narrative_events, movements |-> movement_events])
        Error(streams, queried, what) ==
            [summary |-> Summary("error", 0, NoCorrelation, "none", table, streams,
                                 queried, Some(what)),
             alerts |-> table]
    IN  IF failure = "fetch" THEN Error(None, FALSE, "fetch")
        ELSE IF run.status = "error" THEN Error(fetched, FALSE, "fromisoformat")
        ELSE IF run.status # "upsert"
        THEN [summary |-> Summary(run.status, 0, NoCorrelation, "none", table, fetched,
                                  FALSE, None),
              alerts |-> table]
        ELSE IF failure = "query" THEN Error(fetched, TRUE, "query")
        ELSE IF plan.op = "refused"
        THEN [summary |-> Summary("success", run.correlations_found, run.correlation,
                                  "refused", table, fetched, TRUE, None),
              alerts |-> table]
        ELSE IF failure = "write" THEN Error(fetched, TRUE, "write")
        ELSE [summary |-> Summary("success", run.correlations_found, run.correlation,
                                  plan.op, table, fetched, TRUE, None),
              alerts |-> ApplyWrite(table, plan, run.correlation.region)]

Procs == {"p1", "p2"}

NoPlan == [op |-> "none", id |-> 0, data |-> AlertData(NoCorrelation, <<>>, 0)]

IdleProc == [pc |-> "idle", found |-> 0, correlation |-> NoCorrelation,
             plan |-> NoPlan]

NoCall == [op |-> "none", args |-> <<>>, res |-> None]

\* number of records of the demo fixture (len(self.fixture["records"]))
FixtureSize == 2

\* DemoEngine.__init__: idle, at record 0, no playback task, nothing inserted
\*   loops    : every playback task created so far, in creation order
\*   inserted : per fixture record, the inserts done since the tables were cleared
\*   started  : how the last start() call that created a task was made
NewEngine ==
    [state |-> "idle", current_index |-> 0, loops |-> <<>>,
     inserted |-> [r \in 0..(FixtureSize - 1) |-> 0], started |-> None]

\* module state of the AIS fetcher: _running is True, the stream is not started
\*   batch  : position_batch, the positions received and not yet flushed
\*   stored : the positions flushed to vessel_positions
\*   sent   : number of position reports the server has sent so far
\*   drops  : number of times the connection was closed by the server
NewAis ==
    [running |-> TRUE, pc |-> "idle", batch |-> <<>>, stored |-> {}, sent |-> 0,
     drops |-> 0]

Init ==
    /\ alerts = <<>>
    /\ clock = StartTime
    /\ passes = 0
    /\ last = NoPass
    /\ procs = [p \in Procs |-> IdleProc]
    /\ fn = NoCall
    /\ engine = NewEngine
    /\ ais = NewAis

\* one correlation pass run from start to end with no other pass in between
Pass ==
    /\ passes < MaxPasses
    /\ \E ntable \in Tables(NarrPool), mtable \in Tables(MovePool), failure \in Failures :
         \E narrative_events \in fetch_narrative_events(ntable, clock),
            movement_events \in fetch_movement_events(mtable, clock),
            existing_data \in QueryResults(alerts) :
             LET out == PassOutcome(narrative_events, movement_events, existing_data,
                                    failure, clock, alerts)
             IN  /\ alerts' = out.alerts
                 /\ last' = out.summary
    /\ passes' = passes + 1
    /\ clock' = clock + 1
    /\ UNCHANGED <<procs, fn, engine, ais>>

Next == Pass

\* serial correlation passes (a scheduler or a single request at a time)
Spec == Init /\ [][Next]_vars

---------------------------------------------------------------------------
(* Claims about serial passes *)

\* the unresolved alerts of the region in a table; the alert the region had
\* before the last pass, and has now
UnresolvedIds(table) ==
    {i \in 1..Len(table) : table[i].region = "Taiwan Strait" /\ table[i].resolved_at = <<>>}
HadActive == UnresolvedIds(last.before) # {}
ActiveBefore == last.before[CHOOSE i \in UnresolvedIds(last.before) : TRUE]
ActiveNow == alerts[CHOOSE i \in UnresolvedIds(alerts) : TRUE]
History(row) == row.correlation_metadata.detection_history
LastEntry == [detected_at |-> last.detected_at, score |-> last.highest_score,
              level |-> last.threat_level]
IsPrefix(s, t) == Len(s) <= Len(t) /\ \A i \in 1..Len(s) : s[i] = t[i]

\* C1: across serial passes the threat_level stored on the region's active alert
\* never decreases in the order GREEN < AMBER < RED: after each pass every alert
\* that was active before it is still there with an equal or higher level.
C1_LevelNeverDecreases ==
    \A i \in UnresolvedIds(last.before) :
        /\ i \in UnresolvedIds(alerts)
        /\ LevelValue(alerts[i].threat_level) >= LevelValue(last.before[i].threat_level)

\* C1 witness: a pass computed GREEN against a stored AMBER alert, which stayed AMBER.
C1_Witness ==
    /\ HadActive
    /\ last.status = "success"
    /\ last.threat_level = "GREEN"
    /\ ActiveBefore.threat_level = "AMBER"
    /\ ActiveNow.threat_level = "AMBER"

\* C2: when an unresolved alert exists and the pass computes a strictly lower
\* level than the stored one, nothing is written: the whole alerts table (level,
\* score, confidence, sub_scores, correlation_metadata with detection_history,
\* updated_at) is what it was before the pass.
C2_RefusedPassWritesNothing ==
    (/\ HadActive
     /\ last.status = "success"
     /\ LevelValue(last.threat_level) < LevelValue(ActiveBefore.threat_level))
    => alerts = last.before

\* C2 witness: a stored RED alert and a pass that computed AMBER.
C2_Witness ==
    /\ HadActive
    /\ last.status = "success"
    /\ last.threat_level = "AMBER"
    /\ ActiveBefore.threat_level = "RED"
    /\ Len(History(ActiveBefore)) >= 2

\* C3: detection_history is append-only under serial passes: an inserted alert
\* starts with exactly the one entry of its pass, an accepted update (new level >=
\* stored level) stores the old history followed by exactly the entry of its
\* pass, and every earlier history is a prefix of the later one.
C3_HistoryAppendOnly ==
    /\ \A i \in 1..Len(last.before) :
           /\ i <= Len(alerts)
           /\ IsPrefix(History(last.before[i]), History(alerts[i]))
    /\ (last.status = "success" /\ ~HadActive)
           => /\ Len(alerts) = Len(last.before) + 1
              /\ History(alerts[Len(alerts)]) = <<LastEntry>>
    /\ (/\ last.status = "success"
        /\ HadActive
        /\ LevelValue(last.threat_level) >= LevelValue(ActiveBefore.threat_level))
           => History(ActiveNow) = Append(History(ActiveBefore), LastEntry)

\* C3 witness: an accepted update of an alert whose history already had two entries.
C3_Witness ==
    /\ HadActive
    /\ last.status = "success"
    /\ Len(History(ActiveBefore)) = 2
    /\ Len(History(ActiveNow)) = 3

\* C4: under serial passes there is at most one unresolved alert for the region;
\* a row is inserted only by a pass that found no unresolved alert, every other
\* pass leaves the number of rows alone, and from the first successful pass on
\* there is exactly one unresolved alert.
C4_OneActiveAlert ==
    /\ Cardinality(UnresolvedIds(alerts)) <= 1
    /\ Len(alerts) # Len(last.before) => ~HadActive /\ Len(alerts) = Len(last.before) + 1
    /\ HadActive => Len(alerts) = Len(last.before)
    /\ last.status = "success" => Cardinality(UnresolvedIds(alerts)) = 1
    /\ alerts # <<>> => Cardinality(UnresolvedIds(alerts)) = 1

\* C4 witness: the alert inserted by the first pass was updated in place twice.
C4_Witness ==
    /\ Len(alerts) = 1
    /\ Len(History(alerts[1])) = 3
    /\ last.write = "update"

---------------------------------------------------------------------------
(* Concurrent passes: POST /api/correlate handlers on one event loop.  A       *)
(* handler gives up control at each await: the gathered fetches, the query for *)
(* the active alert, and the insert / update.                                  *)

\* the pass of handler p ends: it returns its summary, and the handler can serve
\* the next request
Finish(p, status, write, before, queried) ==
    /\ procs' = [procs EXCEPT ![p] = IdleProc]
    /\ last' = Summary(status,
                       IF status = "success" THEN procs[p].found ELSE 0,
                       IF status = "success" THEN procs[p].correlation ELSE NoCorrelation,
                       write, before, None, queried,
                       IF status # "error" THEN None
                       ELSE IF procs[p].pc = "idle" THEN Some("fetch")
                       ELSE Some(procs[p].pc))

\* correlate_events_batch up to the await of the alert query (steps 1 to 5 and the
\* beginning of upsert_alert)
Fetch(p) ==
    /\ procs[p].pc = "idle"
    /\ passes < MaxPasses
    /\ passes' = passes + 1
    /\ clock' = clock + 1
    /\ UNCHANGED <<alerts, fn, engine, ais>>
    /\ \E ntable \in Tables(NarrPool), mtable \in Tables(MovePool), raised \in BOOLEAN :
         \E narrative_events \in fetch_narrative_events(ntable, clock),
            movement_events \in fetch_movement_events(mtable, clock) :
             LET run == Pipeline(narrative_events, movement_events, clock)
             IN  IF raised
                 THEN Finish(p, "error", "none", alerts, FALSE)
                 ELSE IF run.status # "upsert"
                 THEN Finish(p, run.status, "none", alerts, FALSE)
                 ELSE /\ procs' = [procs EXCEPT ![p] =
                                      [@ EXCEPT !.pc = "query",
                                                !.found = run.correlations_found,
                                                !.correlation = run.correlation]]
                      /\ UNCHANGED last

\* upsert_alert from the return of its query to the await of its write, or to its
\* early return
Query(p) ==
    /\ procs[p].pc = "query"
    /\ UNCHANGED <<alerts, clock, passes, fn, engine, ais>>
    /\ \E existing_data \in QueryResults(alerts), raised \in BOOLEAN :
         LET plan == UpsertPlan(existing_data, procs[p].correlation, clock)
         IN  IF raised
             THEN Finish(p, "error", "none", alerts, TRUE)
             ELSE IF plan.op = "refused"
             THEN Finish(p, "success", "refused", alerts, TRUE)
             ELSE /\ procs' = [procs EXCEPT ![p] = [@ EXCEPT !.pc = "write", !.plan = plan]]
                  /\ UNCHANGED last

\* the insert / update of upsert_alert, and the rest of the pass
Write(p) ==
    /\ procs[p].pc = "write"
    /\ UNCHANGED <<clock, passes, fn, engine, ais>>
    /\ \E raised \in BOOLEAN :
         IF raised
         THEN /\ Finish(p, "error", "none", alerts, TRUE)
              /\ UNCHANGED alerts
         ELSE /\ alerts' = ApplyWrite(alerts, procs[p].plan, procs[p].correlation.region)
              /\ Finish(p, "success", procs[p].plan.op, alerts, TRUE)

NextConcurrent == \E p \in Procs : Fetch(p) \/ Query(p) \/ Write(p)

\* correlation passes of concurrent requests, interleaved at their awaits
SpecConcurrent == Init /\ [][NextConcurrent]_vars

---------------------------------------------------------------------------
(* Claims about interleaved passes *)

\* C5: when two correlation passes for the same region interleave, there is still
\* at most one unresolved alert for the region in every reachable state.
C5_OneActiveAlertConcurrent == Cardinality(UnresolvedIds(alerts)) <= 1

\* C6: when two correlation passes for the same region interleave, the stored
\* threat_level of an alert never decreases: after every finished pass each row
\* has a level equal to or higher than the one it had before that pass wrote.
C6_LevelNeverDecreasesConcurrent ==
    \A i \in 1..Len(last.before) :
        LevelValue(alerts[i].threat_level) >= LevelValue(last.before[i].threat_level)

---------------------------------------------------------------------------
(* The pure functions of src/models/threat_levels.py, called on every input of  *)
(* bounded sets: a call is pending (res = None) until its function is applied.  *)

Call(op, args) == [op |-> op, args |-> args, res |-> None]

Scores == 0..(100 * ScoreUnit)

\* the sequences of at most n elements of S
SeqsUpTo(S, n) == UNION {[1..k -> S] : k \in 0..n}

\* narrative_events / movement_events rows as the fetchers return them, one per
\* created_at value of a list, identified by their position
NarrativeRows(times) ==
    [i \in 1..Len(times) |->
        [id |-> i, created_at |-> times[i], outlet_count |-> 1, phrases |-> 0,
         geographic_focus |-> None]]
MovementRows(times) ==
    [i \in 1..Len(times) |->
        [id |-> i, created_at |-> times[i], location_lat |-> None,
         location_lon |-> None]]

\* created_at values, missing or around the edge of the window: the movements
\* lie exactly the window before the first narrative time, one second more than
\* the window before it, and exactly the window after the second narrative time
NarrativeTimes == {MissingTs, Ts(StartTime), Ts(StartTime + 1)}
MovementTimes == {MissingTs, Ts(StartTime - WindowSeconds),
                  Ts(StartTime - WindowSeconds - 1),
                  Ts(StartTime + WindowSeconds + 1)}

\* the calls on lists of at most max_narratives and max_movements rows
MatchCalls(max_narratives, max_movements) ==
    {Call("match_events_by_time_window",
          <<NarrativeRows(nt), MovementRows(mt), CORRELATION_WINDOW_HOURS>>) :
        nt \in SeqsUpTo(NarrativeTimes, max_narratives),
        mt \in SeqsUpTo(MovementTimes, max_movements)}

\* the rows of a list, identified by their position
WithIds(rows) == [i \in 1..Len(rows) |-> [id |-> i] @@ rows[i]]

\* narrative rows a pass can fetch: weak or strong (both geo-focused on the
\* region), with a created_at that is well-formed, malformed or missing
PassNarratives ==
    {[created_at |-> t, outlet_count |-> c[1], phrases |-> c[2],
      geographic_focus |-> Some(FujianCoast)] :
        t \in {Ts(StartTime), MalformedTs, MissingTs},
        c \in {<<OUTLET_MIN, PHRASE_MIN>>, <<OUTLET_MAX, PHRASE_MAX>>}}

\* movement rows a pass can fetch, inside the region: at the time of the
\* narratives, more than the window after them, or with a malformed created_at
PassMovements ==
    {[created_at |-> t, location_lat |-> Some(24), location_lon |-> Some(120)] :
        t \in {Ts(StartTime), Ts(StartTime + WindowSeconds + 1), MalformedTs}}

\* the passes on streams of at most max_narratives and max_movements rows
PassCalls(max_narratives, max_movements) ==
    {Call("correlate_events_batch", <<WithIds(ns), WithIds(ms)>>) :
        ns \in SeqsUpTo(PassNarratives, max_narratives),
        ms \in SeqsUpTo(PassMovements, max_movements)}

\* points in whole degrees: inside the box, on its edges and corners, and one
\* degree outside of it
GeoCalls ==
    {Call("is_in_taiwan_strait", <<lat, lon>>) :
        lat \in (LAT_MIN - 1)..(LAT_MAX + 1), lon \in (LON_MIN - 1)..(LON_MAX + 1)}

Japan == <<"J","a","p","a","n">>

\* one match of step 2: a narrative with geographic_focus null, empty, naming the
\* region or naming another one, and its matched movements, each without
\* coordinates, with one coordinate only, inside the box, on its corner, or
\* outside of it
CorrelationCalls(max_movements) ==
    {Call("correlation",
          <<[narrative |-> [id |-> 1, created_at |-> Ts(StartTime),
                            outlet_count |-> OUTLET_MIN, phrases |-> PHRASE_MIN,
                            geographic_focus |-> focus],
             movements |-> [k \in 1..Len(at) |->
                               [id |-> k, created_at |-> Ts(StartTime),
                                location_lat |-> at[k][1],
                                location_lon |-> at[k][2]]]]>>) :
        focus \in {None, Some(<<>>), Some(FujianCoast), Some(Japan)},
        at \in SeqsUpTo({<<None, None>>, <<Some(24), None>>, <<None, Some(120)>>,
                         <<Some(24), Some(120)>>, <<Some(LAT_MIN), Some(LON_MIN)>>,
                         <<Some(LAT_MAX + 1), Some(120)>>}, max_movements) \ {<<>>}}

\* narrative events with an outlet_count and a number of synchronized_phrases
\* from 0 to beyond the normalisation range, and few, half of VOLUME_MAX, about
\* VOLUME_MAX and more than VOLUME_MAX matched movements
ScoreCalls ==
    {Call("calculate_composite_score",
          <<[id |-> 1, created_at |-> Ts(StartTime), outlet_count |-> outlet_count,
             phrases |-> phrase_count, geographic_focus |-> None],
            MovementRows([k \in 1..post_volume |-> Ts(StartTime)]),
            geo_match>>) :
        outlet_count \in 0..(OUTLET_MAX + 2), phrase_count \in 0..(PHRASE_MAX + 2),
        post_volume \in {0, 1, 2, VOLUME_MAX \div 2, VOLUME_MAX - 1, VOLUME_MAX,
                         VOLUME_MAX + 1},
        geo_match \in BOOLEAN}

\* the three ranges the scorer normalises over and every small range, inverted
\* ones included, with the values from two below to two above the range
NormalizeCalls ==
    {Call("normalize_min_max", <<value, r[1], r[2]>>) :
        r \in (0..3) \X (0..3) \cup {<<OUTLET_MIN, OUTLET_MAX>>, <<PHRASE_MIN, PHRASE_MAX>>,
                                      <<VOLUME_MIN, VOLUME_MAX>>},
        value \in (-2)..(VOLUME_MAX + 2)}

Operations == {"can_transition_to", "determine_threat_level", "calculate_confidence",
               "match_events_by_time_window", "correlate_events_batch",
               "is_in_taiwan_strait", "correlation", "calculate_composite_score",
               "normalize_min_max"}

\* the calls of an operation on the inputs of the bounded sets
PendingCalls(op) ==
    CASE op = "can_transition_to" ->
             {Call(op, <<from, to>>) : from \in Levels, to \in Levels}
      [] op = "determine_threat_level" -> {Call(op, <<s>>) : s \in Scores}
      [] op = "calculate_confidence" ->
             {Call(op, <<n, m, g>>) : n \in 0..MaxCount, m \in 0..MaxCount, g \in BOOLEAN}
      [] op = "match_events_by_time_window" -> MatchCalls(MaxNarratives, MaxMovements)
      [] op = "correlate_events_batch" -> PassCalls(MaxNarratives, MaxMovements)
      [] op = "is_in_taiwan_strait" -> GeoCalls
      [] op = "correlation" -> CorrelationCalls(MaxMovements)
      [] op = "calculate_composite_score" -> ScoreCalls
      [] op = "normalize_min_max" -> NormalizeCalls

InitFn ==
    /\ alerts = <<>>
    /\ clock = StartTime
    /\ passes = 0
    /\ last = NoPass
    /\ procs = [p \in Procs |-> IdleProc]
    /\ \E op \in Operations : fn \in PendingCalls(op)
    /\ engine = NewEngine
    /\ ais = NewAis

Pending(op) == fn.op = op /\ IsNone(fn.res)
Returned(op) == fn.op = op /\ ~IsNone(fn.res)

ApplyCanTransition ==
    /\ Pending("can_transition_to")
    /\ fn' = [fn EXCEPT !.res = Some(can_transition_to(fn.args[1], fn.args[2]))]
    /\ UNCHANGED <<alerts, clock, passes, last, procs, engine, ais>>

ApplyDetermine ==
    /\ Pending("determine_threat_level")
    /\ fn' = [fn EXCEPT !.res = Some(determine_threat_level(fn.args[1]))]
    /\ UNCHANGED <<alerts, clock, passes, last, procs, engine, ais>>

ApplyConfidence ==
    /\ Pending("calculate_confidence")
    /\ fn' = [fn EXCEPT !.res =
                 Some(calculate_confidence(fn.args[1], fn.args[2], fn.args[3]))]
    /\ UNCHANGED <<alerts, clock, passes, last, procs, engine, ais>>

ApplyMatch ==
    /\ Pending("match_events_by_time_window")
    /\ fn' = [fn EXCEPT !.res =
                 Some(match_events_by_time_window(fn.args[1], fn.args[2], fn.args[3]))]
    /\ UNCHANGED <<alerts, clock, passes, last, procs, engine, ais>>

\* correlate_events_batch on the fetched streams fn.args, as the first pass of a
\* store that does not fail: the summary it returns and the alerts it leaves
ApplyPass ==
    /\ Pending("correlate_events_batch")
    /\ LET out == PassOutcome(fn.args[1], fn.args[2], <<>>, "none", clock, alerts)
       IN  /\ alerts' = out.alerts
           /\ last' = out.summary
           /\ fn' = [fn EXCEPT !.res = Some(out.summary.status)]
    /\ UNCHANGED <<clock, passes, procs, engine, ais>>

ApplyInStrait ==
    /\ Pending("is_in_taiwan_strait")
    /\ fn' = [fn EXCEPT !.res = Some(is_in_taiwan_strait(fn.args[1], fn.args[2]))]
    /\ UNCHANGED <<alerts, clock, passes, last, procs, engine, ais>>

\* step 3 of correlate_events_batch for the match fn.args[1]
ApplyCorrelation ==
    /\ Pending("correlation")
    /\ fn' = [fn EXCEPT !.res = Some(Correlation(fn.args[1], clock))]
    /\ UNCHANGED <<alerts, clock, passes, last, procs, engine, ais>>

ApplyScore ==
    /\ Pending("calculate_composite_score")
    /\ fn' = [fn EXCEPT !.res =
                 Some(calculate_composite_score(fn.args[1], fn.args[2], fn.args[3]))]
    /\ UNCHANGED <<alerts, clock, passes, last, procs, engine, ais>>

ApplyNormalize ==
    /\ Pending("normalize_min_max")
    /\ fn' = [fn EXCEPT !.res =
                 Some(normalize_min_max(fn.args[1], fn.args[2], fn.args[3]))]
    /\ UNCHANGED <<alerts, clock, passes, last, procs, engine, ais>>

NextFn ==
    \/ ApplyCanTransition
    \/ ApplyDetermine
    \/ ApplyConfidence
    \/ ApplyMatch
    \/ ApplyPass
    \/ ApplyInStrait
    \/ ApplyCorrelation
    \/ ApplyScore
    \/ ApplyNormalize

SpecFn == InitFn /\ [][NextFn]_vars

---------------------------------------------------------------------------
(* Claims about the pure functions *)

\* C7: for all nine ordered pairs of levels, can_transition_to(from, to) is true
\* exactly when to >= from in the order GREEN < AMBER < RED: it is refused for
\* AMBER->GREEN, RED->AMBER and RED->GREEN and allowed for the six other pairs.
C7_CanTransitionIffNotLower ==
    Returned("can_transition_to") =>
        (Get(fn.res) <=>
            fn.args \notin {<<"AMBER", "GREEN">>, <<"RED", "AMBER">>, <<"RED", "GREEN">>})

\* C7 witness: RED.can_transition_to(AMBER) returned False.
C7_Witness ==
    /\ Returned("can_transition_to")
    /\ fn.args = <<"RED", "AMBER">>
    /\ Get(fn.res) = FALSE

\* C8: determine_threat_level(s) is GREEN iff s < 30, AMBER iff 30 <= s < 70 and
\* RED iff s >= 70, for every score s in [0,100] (here every multiple of
\* 1/ScoreUnit).
C8_ThresholdsClassify ==
    Returned("determine_threat_level") =>
        LET s == fn.args[1]
            level == Get(fn.res)
        IN  /\ level \in Levels
            /\ level = "GREEN" <=> s < 30 * ScoreUnit
            /\ level = "AMBER" <=> (30 * ScoreUnit <= s /\ s < 70 * ScoreUnit)
            /\ level = "RED" <=> s >= 70 * ScoreUnit

\* C8 witness: the score 30 was classified AMBER.
C8_Witness ==
    /\ Returned("determine_threat_level")
    /\ fn.args[1] = 30 * ScoreUnit
    /\ Get(fn.res) = "AMBER"

\* C9: calculate_confidence returns an integer in [0,95] for every non-negative
\* narrative_count and movement_count and both values of geo_match.
C9_ConfidenceInRange ==
    Returned("calculate_confidence") => Get(fn.res) \in 0..95

\* C9 witness: a call whose uncapped sum is 100 returned 95.
C9_Witness ==
    /\ Returned("calculate_confidence")
    /\ fn.args = <<3, 6, TRUE>>
    /\ Get(fn.res) = 95

\* C10 as claimed: calculate_confidence strictly increases when one input is
\* increased and the two others are held fixed, as long as that input's own
\* contribution is below its own cap (15*n < 40, 5*m < 30, geo_match false).
C10_StrictlyIncreasesBelowOwnCap ==
    Returned("calculate_confidence") =>
        LET n == fn.args[1]
            m == fn.args[2]
            g == fn.args[3]
            r == Get(fn.res)
        IN  /\ 15 * n < 40 => calculate_confidence(n + 1, m, g) > r
            /\ 5 * m < 30 => calculate_confidence(n, m + 1, g) > r
            /\ ~g => calculate_confidence(n, m, TRUE) > r

\* C10 amended: calculate_confidence never decreases when one input is increased
\* and the two others are held fixed, and it strictly increases when, moreover,
\* that input's own contribution is below its own cap and the confidence before
\* the increase is below the overall cap of 95.
C10_StrictlyIncreasesBelowCaps ==
    Returned("calculate_confidence") =>
        LET n == fn.args[1]
            m == fn.args[2]
            g == fn.args[3]
            r == Get(fn.res)
        IN  /\ calculate_confidence(n + 1, m, g) >= r
            /\ calculate_confidence(n, m + 1, g) >= r
            /\ calculate_confidence(n, m, TRUE) >= r
            /\ (15 * n < 40 /\ r < 95) => calculate_confidence(n + 1, m, g) > r
            /\ (5 * m < 30 /\ r < 95) => calculate_confidence(n, m + 1, g) > r
            /\ (~g /\ r < 95) => calculate_confidence(n, m, TRUE) > r

\* C10 witness: a call below every cap, where each of the three increases raises
\* the confidence.
C10_Witness ==
    /\ Returned("calculate_confidence")
    /\ fn.args = <<2, 5, FALSE>>
    /\ Get(fn.res) = 65
    /\ calculate_confidence(3, 5, FALSE) = 75
    /\ calculate_confidence(2, 6, FALSE) = 70
    /\ calculate_confidence(2, 5, TRUE) = 85

---------------------------------------------------------------------------
(* Claims about the event matcher *)

\* the created_at values of a list are all missing or well-formed
WellTimed(events) == \A i \in 1..Len(events) : events[i].created_at.kind # "malformed"

\* the positions of the movement events that carry a timestamp at most
\* window_hours away from the timestamp of narrative event i, before or after
Near(narrs, movs, window_hours, i) ==
    {k \in 1..Len(movs) :
        /\ movs[k].created_at.kind = "iso"
        /\ narrs[i].created_at.secs - movs[k].created_at.secs <= window_hours * 3600
        /\ movs[k].created_at.secs - narrs[i].created_at.secs <= window_hours * 3600}

\* the positions of the narrative events that carry a timestamp and have at
\* least one such movement event
Matched(narrs, movs, window_hours) ==
    {i \in 1..Len(narrs) :
        narrs[i].created_at.kind = "iso" /\ Near(narrs, movs, window_hours, i) # {}}

\* C11: on lists whose timestamps are present or missing,
\* match_events_by_time_window returns one pair (n, L) for each narrative event n
\* that has a timestamp and at least one movement event with a timestamp at most
\* window_hours away from it, before or after, L being exactly those movement
\* events (exactly window_hours away is included, one second more is not), and
\* it returns no other pair.
C11_MatchesExactlyWithinWindow ==
    Returned("match_events_by_time_window") =>
        LET narrs == fn.args[1]
            movs == fn.args[2]
            res == Get(fn.res)
            expected == Matched(narrs, movs, fn.args[3])
        IN  /\ ~res.raised
            /\ Len(res.matches) = Cardinality(expected)
            /\ \A j \in 1..Len(res.matches) :
                   \E i \in expected : res.matches[j].narrative = narrs[i]
            /\ \A i \in expected :
                   \E j \in 1..Len(res.matches) :
                       LET L == res.matches[j].movements
                           near == Near(narrs, movs, fn.args[3], i)
                       IN  /\ res.matches[j].narrative = narrs[i]
                           /\ Len(L) = Cardinality(near)
                           /\ {L[k].id : k \in 1..Len(L)} = near
                           /\ \A k \in 1..Len(L) : L[k] = movs[L[k].id]

\* C11 witness: of three movements exactly the window before the first narrative,
\* one second more before it, and exactly the window after the second narrative,
\* the first is paired with the first narrative and the third with the second.
C11_Witness ==
    /\ Returned("match_events_by_time_window")
    /\ fn.args[1] = NarrativeRows(<<Ts(StartTime), Ts(StartTime + 1)>>)
    /\ fn.args[2] = MovementRows(<<Ts(StartTime - WindowSeconds),
                                   Ts(StartTime - WindowSeconds - 1),
                                   Ts(StartTime + WindowSeconds + 1)>>)
    /\ Len(Get(fn.res).matches) = 2
    /\ Get(fn.res).matches[1].movements = <<fn.args[2][1]>>
    /\ Get(fn.res).matches[2].movements = <<fn.args[2][3]>>

\* the ids of a list of rows are strictly increasing
Ascending(rows) == \A i, j \in 1..Len(rows) : i < j => rows[i].id < rows[j].id

\* C12: the pairs returned by match_events_by_time_window follow the order of the
\* narrative input, and the movement list of each pair is a subsequence of the
\* movement input in its original order (rows are identified by their position
\* in the input).
C12_InputOrderPreserved ==
    (Returned("match_events_by_time_window") /\ ~Get(fn.res).raised) =>
        LET matches == Get(fn.res).matches
        IN  /\ Ascending([j \in 1..Len(matches) |-> matches[j].narrative])
            /\ \A j \in 1..Len(matches) : Ascending(matches[j].movements)

\* C12 witness: two narratives matched in input order, each with the first and
\* the third of three movements, the second being out of the window.
C12_Witness ==
    /\ Returned("match_events_by_time_window")
    /\ fn.args[1] = NarrativeRows(<<Ts(StartTime), Ts(StartTime)>>)
    /\ fn.args[2] = MovementRows(<<Ts(StartTime - WindowSeconds),
                                   Ts(StartTime - WindowSeconds - 1),
                                   Ts(StartTime - WindowSeconds)>>)
    /\ Len(Get(fn.res).matches) = 2
    /\ Get(fn.res).matches[1].narrative.id = 1
    /\ Get(fn.res).matches[2].narrative.id = 2
    /\ \A j \in 1..2 : Get(fn.res).matches[j].movements = <<fn.args[2][1], fn.args[2][3]>>

---------------------------------------------------------------------------
(* Claims about a pass on given fetched streams *)

\* the rows of a list whose created_at is present and well-formed
WellFormed(events) ==
    LET Parses(e) == e.created_at.kind = "iso" IN SelectSeq(events, Parses)

\* the result of the same pass on the well-formed rows alone
WellFormedPass ==
    PassOutcome(WellFormed(fn.args[1]), WellFormed(fn.args[2]), <<>>, "none",
                StartTime, <<>>)

\* two summaries report the same result
SameResult(a, b) ==
    /\ a.status = b.status
    /\ a.correlations_found = b.correlations_found
    /\ a.highest_score = b.highest_score
    /\ a.threat_level = b.threat_level
    /\ a.confidence = b.confidence

\* C13: a narrative or movement event whose created_at is missing or cannot be
\* parsed is skipped and the pass goes on: correlate_events_batch does not end
\* with status error, and when the well-formed events alone give a correlation,
\* the pass stores the same alert and reports the same result as it does on
\* them alone.
C13_BadTimestampSkipped ==
    Returned("correlate_events_batch") =>
        /\ last.status # "error"
        /\ WellFormedPass.summary.status = "success" =>
               (alerts = WellFormedPass.alerts /\ SameResult(last, WellFormedPass.summary))

\* C13 holds for the events whose created_at is missing: they are skipped
C13_MissingTimestampSkipped ==
    (Returned("correlate_events_batch")
        /\ WellTimed(fn.args[1]) /\ WellTimed(fn.args[2])) =>
        /\ last.status # "error"
        /\ WellFormedPass.summary.status = "success" =>
               (alerts = WellFormedPass.alerts /\ SameResult(last, WellFormedPass.summary))

---------------------------------------------------------------------------
(* Claims about the geographic checks *)

\* C14: is_in_taiwan_strait(lat, lon) is true exactly when 23.0 <= lat <= 26.0
\* and 118.0 <= lon <= 122.0, the points on the edges and corners of the box
\* counting as inside.
C14_InclusiveBox ==
    Returned("is_in_taiwan_strait") =>
        (Get(fn.res) <=>
            (/\ 23 <= fn.args[1] /\ fn.args[1] <= 26
             /\ 118 <= fn.args[2] /\ fn.args[2] <= 122))

\* off the edges of the box is_in_taiwan_strait does tell inside from outside
C14_OffEdge ==
    Returned("is_in_taiwan_strait") =>
        /\ (23 < fn.args[1] /\ fn.args[1] < 26 /\ 118 < fn.args[2] /\ fn.args[2] < 122)
               => Get(fn.res)
        /\ (fn.args[1] < 23 \/ fn.args[1] > 26 \/ fn.args[2] < 118 \/ fn.args[2] > 122)
               => ~Get(fn.res)

\* the text names the region: it contains taiwan, strait or fujian in any case
NamesRegion(focus) ==
    /\ focus # <<>>
    /\ \E word \in {<<"t","a","i","w","a","n">>, <<"s","t","r","a","i","t">>,
                    <<"f","u","j","i","a","n">>} : Contains(Lower(focus[1]), word)

\* a movement has both coordinates, within the box (edges included)
InBox(m) ==
    /\ m.location_lat # <<>> /\ m.location_lon # <<>>
    /\ 23 <= m.location_lat[1] /\ m.location_lat[1] <= 26
    /\ 118 <= m.location_lon[1] /\ m.location_lon[1] <= 122

\* a movement has a coordinate on an edge of the box
OnEdge(m) ==
    \/ m.location_lat \in {<<23>>, <<26>>}
    \/ m.location_lon \in {<<118>>, <<122>>}

\* C15: for every matched pair, the geo_match used for scoring is true exactly
\* when the narrative's geographic_focus names the region and at least one of
\* its matched movements has both latitude and longitude present and inside the
\* region bounding box; a null or empty geographic_focus gives geo_match false.
C15_GeoMatchIsConjunction ==
    Returned("correlation") =>
        LET narrative == fn.args[1].narrative
            movements == fn.args[1].movements
        IN  /\ Get(fn.res).geo_match <=>
                   (/\ NamesRegion(narrative.geographic_focus)
                    /\ \E k \in 1..Len(movements) : InBox(movements[k]))
            /\ narrative.geographic_focus \in {<<>>, << <<>> >>}
                   => ~Get(fn.res).geo_match

\* C15 holds on the matched pairs none of whose movements lies on an edge of the
\* box
C15_OffEdge ==
    (Returned("correlation")
        /\ \A k \in 1..Len(fn.args[1].movements) : ~OnEdge(fn.args[1].movements[k])) =>
        LET narrative == fn.args[1].narrative
            movements == fn.args[1].movements
        IN  /\ Get(fn.res).geo_match <=>
                   (/\ NamesRegion(narrative.geographic_focus)
                    /\ \E k \in 1..Len(movements) : InBox(movements[k]))
            /\ narrative.geographic_focus \in {<<>>, << <<>> >>}
                   => ~Get(fn.res).geo_match

---------------------------------------------------------------------------
(* Claims about scoring *)

\* C16: for every narrative event with a non-negative outlet_count and number of
\* synchronized phrases, every number of matched movements and both values of
\* geo_match, calculate_composite_score returns four sub-scores in [0,100], the
\* geo score being 100 if geo_match else 0, and a composite in [0,100] equal to
\* 0.30*outlet + 0.25*phrase + 0.20*volume + 0.25*geo.
C16_CompositeIsWeightedSum ==
    Returned("calculate_composite_score") =>
        LET sub == Get(fn.res).sub_scores
            composite == Get(fn.res).composite
            Percent == 0..(100 * ScoreUnit)
        IN  /\ sub.outlet_score \in Percent
            /\ sub.phrase_score \in Percent
            /\ sub.volume_score \in Percent
            /\ sub.geo_score = IF fn.args[3] THEN 100 * ScoreUnit ELSE 0
            /\ composite \in Percent
            /\ 100 * composite = 30 * sub.outlet_score + 25 * sub.phrase_score
                                     + 20 * sub.volume_score + 25 * sub.geo_score

\* C16 witness: 3 outlets, 3 phrases, 2 matched movements and a geographic match
\* score 66.67, 30, 4 and 100, and 53.3 together.
C16_Witness ==
    /\ Returned("calculate_composite_score")
    /\ fn.args[1].outlet_count = 3
    /\ fn.args[1].phrases = 3
    /\ Len(fn.args[2]) = 2
    /\ fn.args[3]
    /\ Get(fn.res).sub_scores = [outlet_score |-> 20000, phrase_score |-> 9000,
                                 volume_score |-> 1200, geo_score |-> 30000]
    /\ Get(fn.res).composite = 15990

\* C16 witness of the clamps: every raw value beyond its range, composite 100.
C16_WitnessClamped ==
    /\ Returned("calculate_composite_score")
    /\ fn.args[1].outlet_count > OUTLET_MAX
    /\ fn.args[1].phrases > PHRASE_MAX
    /\ Len(fn.args[2]) > VOLUME_MAX
    /\ fn.args[3]
    /\ Get(fn.res).composite = 100 * ScoreUnit

\* C17: normalize_min_max(value, min, max) always returns a value in [0,100]; it
\* returns 50 whenever min = max, whatever the value; and over a range min < max
\* it returns 0 when value = min, 100 when value = max, 0 for every value below
\* min and 100 for every value above max.
C17_NormalizeClamps ==
    Returned("normalize_min_max") =>
        LET value == fn.args[1]
            min == fn.args[2]
            max == fn.args[3]
            r == Get(fn.res)
        IN  /\ 0 <= r /\ r <= 100 * ScoreUnit
            /\ min = max => r = 50 * ScoreUnit
            /\ (min < max /\ value <= min) => r = 0
            /\ (min < max /\ value >= max) => r = 100 * ScoreUnit

\* C17 witness: an outlet_count above OUTLET_MAX is normalised to 100.
C17_Witness ==
    /\ Returned("normalize_min_max")
    /\ fn.args = <<OUTLET_MAX + 1, OUTLET_MIN, OUTLET_MAX>>
    /\ Get(fn.res) = 100 * ScoreUnit

\* C17 witnesses: a value below min = max is normalised to 50, and a value below
\* the minimum of a range to 0.
C17_WitnessDegenerate ==
    /\ Returned("normalize_min_max")
    /\ fn.args = <<0, 2, 2>>
    /\ Get(fn.res) = 50 * ScoreUnit
C17_WitnessBelow ==
    /\ Returned("normalize_min_max")
    /\ fn.args = <<0, OUTLET_MIN, OUTLET_MAX>>
    /\ Get(fn.res) = 0

---------------------------------------------------------------------------
(* Claims about the early returns of a serial pass *)

\* the last pass fetched its two streams
Fetched == last.fetched # <<>>
FetchedNarratives == last.fetched[1].narratives
FetchedMovements == last.fetched[1].movements

\* the last pass found nothing and left the alerts table alone: it neither
\* queried it nor wrote to it
LeftAlertsAlone ==
    /\ last.correlations_found = 0
    /\ ~last.queried
    /\ last.write = "none"
    /\ alerts = last.before

\* C18: a pass whose narrative stream is empty returns status
\* no_narrative_events, also when the movement stream is empty too; a pass whose
\* narrative stream is non-empty and whose movement stream is empty returns
\* no_movement_events; in both cases correlations_found is 0 and the pass
\* neither reads nor writes the alerts table.
C18_EmptyStreamReturnsEarly ==
    Fetched =>
        /\ FetchedNarratives = <<>> =>
               (last.status = "no_narrative_events" /\ LeftAlertsAlone)
        /\ (FetchedNarratives # <<>> /\ FetchedMovements = <<>>) =>
               (last.status = "no_movement_events" /\ LeftAlertsAlone)

\* C18 witness: with an active alert stored, a pass fetched two empty streams,
\* returned no_narrative_events and left the alert as it was.
C18_Witness ==
    /\ HadActive
    /\ Fetched
    /\ FetchedNarratives = <<>>
    /\ FetchedMovements = <<>>
    /\ last.status = "no_narrative_events"
    /\ alerts = last.before

\* C18 witness: with an active alert stored, a pass fetched narratives and no
\* movement and returned no_movement_events.
C18_WitnessNoMovement ==
    /\ HadActive
    /\ Fetched
    /\ FetchedNarratives # <<>>
    /\ FetchedMovements = <<>>
    /\ last.status = "no_movement_events"
    /\ alerts = last.before

\* no fetched movement lies within the 72 hours before or after any fetched
\* narrative
NothingInWindow ==
    \A i \in 1..Len(FetchedNarratives), k \in 1..Len(FetchedMovements) :
        LET diff == FetchedNarratives[i].created_at.secs
                        - FetchedMovements[k].created_at.secs
        IN  diff > 72 * 3600 \/ -diff > 72 * 3600

\* C19: a pass whose two streams are non-empty but in which no movement event
\* lies within the window of any narrative event returns status
\* no_temporal_matches with correlations_found 0, and no alert is mutated.
C19_NoTemporalMatch ==
    (Fetched /\ FetchedNarratives # <<>> /\ FetchedMovements # <<>> /\ NothingInWindow) =>
        /\ last.status = "no_temporal_matches"
        /\ last.correlations_found = 0
        /\ last.write = "none"
        /\ alerts = last.before

\* C19 witness: with an active alert stored, a pass fetched the old narrative and
\* the movement dated more than the window after it, and returned
\* no_temporal_matches.
C19_Witness ==
    /\ HadActive
    /\ Fetched
    /\ Len(FetchedNarratives) = 1
    /\ Len(FetchedMovements) = 1
    /\ NothingInWindow
    /\ last.status = "no_temporal_matches"
    /\ alerts = last.before

---------------------------------------------------------------------------
(* Claims about the candidate a pass submits to upsert_alert *)

\* the matched pair of narrative i of the streams fn.args (rows are identified
\* by their position), scored
Candidate(i) ==
    LET near == Near(fn.args[1], fn.args[2], 72, i)
        IsNear(m) == m.id \in near
    IN  Correlation([narrative |-> fn.args[1][i],
                     movements |-> SelectSeq(fn.args[2], IsNear)], StartTime)

\* the first, in input order, of the candidates with the highest composite score
Best ==
    CHOOSE i \in Matched(fn.args[1], fn.args[2], 72) :
        \A j \in Matched(fn.args[1], fn.args[2], 72) :
            \/ Candidate(j).composite_score < Candidate(i).composite_score
            \/ Candidate(j).composite_score = Candidate(i).composite_score /\ i <= j

\* C20: among all matched pairs of a pass, the one submitted to upsert_alert has
\* the maximum composite_score and, on ties, is the one whose narrative comes
\* first in the fetched order; the stored threat level and confidence are
\* computed from that pair only, and no other candidate is written to the alert.
C20_HighestCandidateWritten ==
    (Returned("correlate_events_batch") /\ last.status = "success") =>
        LET best == Candidate(Best)
        IN  /\ Len(alerts) = 1
            /\ alerts[1].correlation_metadata.narrative_event_ids
                   = <<fn.args[1][Best].id>>
            /\ alerts[1].correlation_metadata.movement_event_ids
                   = best.movement_event_ids
            /\ alerts[1].threat_score = best.composite_score
            /\ alerts[1].sub_scores = best.sub_scores
            /\ alerts[1].threat_level = determine_threat_level(best.composite_score)
            /\ alerts[1].confidence =
                   calculate_confidence(1, Len(best.movement_event_ids), best.geo_match)
            /\ Len(alerts[1].correlation_metadata.detection_history) = 1
            /\ alerts[1].correlation_metadata.detection_history[1].score
                   = best.composite_score
            /\ last.highest_score = best.composite_score
            /\ \A j \in Matched(fn.args[1], fn.args[2], 72) :
                   Candidate(j).composite_score <= alerts[1].threat_score

\* C20 witness: two strong narratives tie on the same movement; the alert carries
\* the first of them.
C20_Witness ==
    /\ Returned("correlate_events_batch")
    /\ last.status = "success"
    /\ Matched(fn.args[1], fn.args[2], 72) = {1, 2}
    /\ Candidate(1).composite_score = Candidate(2).composite_score
    /\ alerts[1].correlation_metadata.narrative_event_ids = <<1>>

\* C20 witness: a weak narrative fetched before a strong one; the alert carries
\* the strong one.
C20_WitnessSecond ==
    /\ Returned("correlate_events_batch")
    /\ last.status = "success"
    /\ Matched(fn.args[1], fn.args[2], 72) = {1, 2}
    /\ Candidate(1).composite_score < Candidate(2).composite_score
    /\ alerts[1].correlation_metadata.narrative_event_ids = <<2>>
    /\ alerts[1].threat_level = "RED"

---------------------------------------------------------------------------
(* Claims about what a pass returns *)

\* C21: every finished pass of correlate_events_batch returned a status that is
\* one of success, no_narrative_events, no_movement_events, no_temporal_matches
\* and error, the error status carrying the message of what raised and no other
\* status carrying one: whatever raises inside the pass is returned as status
\* error and not passed on to the caller.
C21_StatusIsOneOfFive ==
    last.status # "none" =>
        /\ last.status \in {"success", "no_narrative_events", "no_movement_events",
                            "no_temporal_matches", "error"}
        /\ last.status = "error" <=> last.error # <<>>

\* C21 witness: the query for the active alert raised and the pass returned
\* status error with its message.
C21_Witness ==
    /\ last.status = "error"
    /\ last.error = <<"query">>
    /\ last.queried
    /\ alerts = last.before

\* what the last pass computed from the streams it fetched, up to upsert_alert
Computed == Pipeline(FetchedNarratives, FetchedMovements, last.detected_at)

\* the last pass reached the monotonic check of upsert_alert with a level
\* strictly lower than the stored one: its query returned the active alert
ReachedCheckWithLowerLevel ==
    /\ Fetched
    /\ HadActive
    /\ Computed.status = "upsert"
    /\ last.queried
    /\ last.error # <<"query">>
    /\ LevelValue(Computed.correlation.threat_level)
           < LevelValue(ActiveBefore.threat_level)

\* C22: a pass whose computed level is refused by the monotonic check (strictly
\* lower than the stored level) returns status success, not error, with the
\* result it computed, and the alerts table is left as it was.
C22_RefusedPassSucceeds ==
    ReachedCheckWithLowerLevel =>
        /\ last.status = "success"
        /\ last.error = <<>>
        /\ last.threat_level = Computed.correlation.threat_level
        /\ last.highest_score = Computed.correlation.composite_score
        /\ alerts = last.before

\* C22 witness: a pass computed GREEN against a stored RED alert and returned
\* success with threat_level GREEN, the alert staying as it was.
C22_Witness ==
    /\ ReachedCheckWithLowerLevel
    /\ ActiveBefore.threat_level = "RED"
    /\ last.status = "success"
    /\ last.threat_level = "GREEN"
    /\ ActiveNow = ActiveBefore

\* the rows of the alerts table that the last pass changed or added
Written == {i \in 1..Len(alerts) : i > Len(last.before) \/ alerts[i] # last.before[i]}

\* C23: when an event-stream fetch, the query for the active alert or the insert
\* / update raised, the pass returned status error with the message of what
\* raised and the alerts table is exactly what it was before the pass; and a
\* pass writes at most one row, in one store write, and removes none.
C23_FailureLeavesAlertsAsTheyWere ==
    /\ last.error # <<>> =>
           (last.status = "error" /\ last.write = "none" /\ alerts = last.before)
    /\ Len(alerts) >= Len(last.before)
    /\ Cardinality(Written) <= 1
    /\ Written # {} => (last.status = "success" /\ last.write \in {"insert", "update"})

\* C23 witness: with a stored alert that the pass would have escalated, the
\* update raised; the pass returned error and the alert is as it was.
C23_Witness ==
    /\ HadActive
    /\ last.error = <<"write">>
    /\ last.status = "error"
    /\ LevelValue(Computed.correlation.threat_level) > LevelValue(ActiveBefore.threat_level)
    /\ ActiveNow = ActiveBefore

\* C23 witnesses: the fetch raised; the insert of the first alert raised.
C23_WitnessFetch ==
    /\ HadActive
    /\ last.error = <<"fetch">>
    /\ last.status = "error"
    /\ alerts = last.before
C23_WitnessInsert ==
    /\ last.error = <<"write">>
    /\ last.before = <<>>
    /\ alerts = <<>>

---------------------------------------------------------------------------
(* Claims about the detection history under interleaved passes *)

\* C24: when correlation passes for the same region interleave, an accepted
\* update never loses a history entry: the detection_history a pass stores
\* extends the detection_history the row held just before that write, so that
\* the entries of both passes follow the previous history.
C24_NoHistoryEntryLost ==
    last.write = "update" =>
        \A i \in 1..Len(last.before) :
            IsPrefix(History(last.before[i]), History(alerts[i]))

---------------------------------------------------------------------------
\* The demo playback engine (src/demo/engine.py)

\* bound on the playback tasks created by start() in one behaviour
MaxLoops == 3

\* whether the gap to the next record makes the loop sleep (delay_seconds > 0)
Delays == {0, 1}

others == <<alerts, clock, passes, last, procs, fn>>

NewLoop == [pc |-> "begin", record |-> 0]

Live(e) == {t \in DOMAIN e.loops : e.loops[t].pc \in {"begin", "sleep", "insert"}}

\* asyncio runs a task made by create_task before it handles the next request:
\* a control call finds every playback task past its first step
Scheduled(e) == \A t \in DOMAIN e.loops : e.loops[t].pc # "begin"

\* _playback_loop from the while test to its next await, in task t:
\* the loop ends at the end of the fixture (and turns a playing engine idle) or
\* when the engine is not playing; otherwise it takes records[current_index]
\* and sleeps (delay > 0) or goes straight to the insert
LoopTop(e, t, delay) ==
    IF e.current_index >= FixtureSize
    THEN [e EXCEPT !.state = IF @ = "playing" THEN "idle" ELSE @,
                   !.loops[t].pc = "done"]
    ELSE IF e.state # "playing"
    THEN [e EXCEPT !.loops[t].pc = "done"]
    ELSE [e EXCEPT !.loops[t] = [pc |-> IF delay > 0 THEN "sleep" ELSE "insert",
                                 record |-> e.current_index]]

\* start(clear_first): nothing when playing; from idle with clear_first the
\* tables are cleared and the position reset; a playback task is created
StartCall(clear_first) ==
    /\ Scheduled(engine)
    /\ engine.state # "playing"
    /\ Len(engine.loops) < MaxLoops
    /\ LET fresh == engine.state = "idle" /\ clear_first
       IN  engine' = [engine EXCEPT
                        !.state = "playing",
                        !.current_index = IF fresh THEN 0 ELSE @,
                        !.inserted = IF fresh THEN NewEngine.inserted ELSE @,
                        !.loops = Append(@, NewLoop),
                        !.started = Some([from |-> engine.state,
                                          clear_first |-> clear_first])]
    /\ UNCHANGED <<others, ais>>

\* pause(): a playing engine becomes paused; the playback task is left alone
PauseCall ==
    /\ Scheduled(engine)
    /\ engine.state = "playing"
    /\ engine' = [engine EXCEPT !.state = "paused"]
    /\ UNCHANGED <<others, ais>>

\* reset(): cancels self.task (the task created last), goes back to idle at
\* record 0 and clears the tables
ResetCall ==
    /\ Scheduled(engine)
    /\ engine' = [engine EXCEPT
                    !.state = "idle",
                    !.current_index = 0,
                    !.inserted = NewEngine.inserted,
                    !.loops = [t \in DOMAIN @ |->
                                 IF t = Len(@) /\ t \in Live(engine)
                                 THEN [@[t] EXCEPT !.pc = "cancelled"] ELSE @[t]]]
    /\ UNCHANGED <<others, ais>>

\* a created task starts running: previous_offset reads records[current_index]
\* when current_index > 0, which raises IndexError past the end of the fixture
\* (the handler sets the engine idle and the task fails)
LoopBegin(t) ==
    /\ t \in DOMAIN engine.loops
    /\ engine.loops[t].pc = "begin"
    /\ IF engine.current_index > 0 /\ engine.current_index >= FixtureSize
       THEN engine' = [engine EXCEPT !.state = "idle", !.loops[t].pc = "failed"]
       ELSE \E delay \in Delays : engine' = LoopTop(engine, t, delay)
    /\ UNCHANGED <<others, ais>>

\* _interruptible_sleep returns (slept, or the engine stopped playing) and the
\* loop tests the state again
LoopWake(t) ==
    /\ t \in DOMAIN engine.loops
    /\ engine.loops[t].pc = "sleep"
    /\ engine' = [engine EXCEPT !.loops[t].pc =
                                   IF engine.state # "playing" THEN "done" ELSE "insert"]
    /\ UNCHANGED <<others, ais>>

\* _insert_record returns (a failed insert is logged and swallowed), the loop
\* advances current_index and goes round
LoopInserted(t) ==
    /\ t \in DOMAIN engine.loops
    /\ engine.loops[t].pc = "insert"
    /\ \E ok \in BOOLEAN, delay \in Delays :
         LET r == engine.loops[t].record
             e == [engine EXCEPT !.inserted[r] = IF ok THEN @ + 1 ELSE @,
                                 !.current_index = @ + 1]
         IN  engine' = LoopTop(e, t, delay)
    /\ UNCHANGED <<others, ais>>

NextDemo ==
    \/ \E clear_first \in BOOLEAN : StartCall(clear_first)
    \/ PauseCall
    \/ ResetCall
    \/ \E t \in 1..MaxLoops : LoopBegin(t)
    \/ \E t \in 1..MaxLoops : LoopWake(t)
    \/ \E t \in 1..MaxLoops : LoopInserted(t)

\* the control calls of the demo API interleaved with the playback tasks
SpecDemo == Init /\ [][NextDemo]_vars

---------------------------------------------------------------------------
\* Claims about the demo playback engine

\* C25: whatever the interleaving of start() and pause() with the playback
\* task, at most one playback loop is inside its insert at a time, no fixture
\* record is inserted twice between two table clears, and current_index never
\* exceeds the number of fixture records
C25_SinglePlaybackLoop ==
    /\ Cardinality({t \in DOMAIN engine.loops : engine.loops[t].pc = "insert"}) <= 1
    /\ \A r \in DOMAIN engine.inserted : engine.inserted[r] <= 1
    /\ engine.current_index <= FixtureSize

StartedFromIdleWithoutClearing ==
    /\ engine.started = Some([from |-> "idle", clear_first |-> FALSE])
    /\ engine.loops # <<>>
    /\ engine.loops[Len(engine.loops)].pc = "begin"

\* C26: a playback task created by start(clear_first=False) in state idle
\* begins at fixture record 0
C26_IdleStartBeginsAtRecordZero ==
    StartedFromIdleWithoutClearing => engine.current_index = 0

---------------------------------------------------------------------------
\* The AIS stream (src/fetchers/ais.py)

\* batch_size of connect_ais_stream, scaled down
BatchSize == 2

\* bound on the position reports the server sends in one behaviour
MaxPositions == 4

\* bound on the connections the server closes in one behaviour
MaxDrops == 1

\* what the server sends: a PositionReport that validates, or anything else
\* (invalid JSON, a message without PositionReport / MetaData, a bad field)
MessageKinds == {"position", "other"}

outside == <<alerts, clock, passes, last, procs, fn, engine>>

\* flush_positions: inserts the batch; a database error is logged and swallowed
flush_positions(stored, positions, ok) ==
    IF ok THEN stored \cup {positions[i] : i \in DOMAIN positions} ELSE stored

\* connect_ais_stream is called: the subscription is built, the batch is empty
ConnectAisStream ==
    /\ ais.pc = "idle"
    /\ ais' = [ais EXCEPT !.pc = "connect", !.batch = <<>>]
    /\ UNCHANGED outside

\* the reconnecting iterator websockets.connect(AIS_WS_URL) yields a connection
AisConnected ==
    /\ ais.pc = "connect"
    /\ ais' = [ais EXCEPT !.pc = "subscribe"]
    /\ UNCHANGED outside

\* websocket.send(subscription) returns
AisSubscribed ==
    /\ ais.pc = "subscribe"
    /\ ais' = [ais EXCEPT !.pc = "receive"]
    /\ UNCHANGED outside

\* one message arrives. With _running false the socket is closed and the
\* message loop is left by break: control is back at the reconnecting iterator.
\* Otherwise a valid position joins the batch, which is flushed and cleared when
\* it holds batch_size positions; any other message is skipped
AisMessage(kind) ==
    /\ ais.pc = "receive"
    /\ IF ~ais.running
       THEN ais' = [ais EXCEPT !.pc = "connect"]
       ELSE IF kind = "other"
       THEN UNCHANGED ais
       ELSE /\ ais.sent < MaxPositions
            /\ LET position_batch == Append(ais.batch, ais.sent + 1)
               IN  IF Len(position_batch) >= BatchSize
                   THEN \E ok \in BOOLEAN :
                          ais' = [ais EXCEPT
                                    !.sent = @ + 1,
                                    !.stored = flush_positions(@, position_batch, ok),
                                    !.batch = <<>>]
                   ELSE ais' = [ais EXCEPT !.sent = @ + 1, !.batch = position_batch]
    /\ UNCHANGED outside

\* the connection is lost (websockets.ConnectionClosed): sleep, then reconnect
AisDropped ==
    /\ ais.pc \in {"subscribe", "receive"}
    /\ ais.drops < MaxDrops
    /\ ais' = [ais EXCEPT !.pc = "sleep", !.drops = @ + 1]
    /\ UNCHANGED outside

\* asyncio.sleep(5) is over; continue with the next connection
AisSlept ==
    /\ ais.pc = "sleep"
    /\ ais' = [ais EXCEPT !.pc = "connect"]
    /\ UNCHANGED outside

\* stop_ais_stream(): _running = False
StopAisStream ==
    /\ ais.running
    /\ ais' = [ais EXCEPT !.running = FALSE]
    /\ UNCHANGED outside

\* The statements after the reconnecting loop (the final flush of lines
\* 169-172 and the return) run only when the iterator websockets.connect(...)
\* is exhausted; it reconnects for ever and the loop body holds no break or
\* return of its own, so no step leads there
NextAis ==
    \/ ConnectAisStream
    \/ AisConnected
    \/ AisSubscribed
    \/ \E kind \in MessageKinds : AisMessage(kind)
    \/ AisDropped
    \/ AisSlept
    \/ StopAisStream

\* the stream task under the event loop, with a server that keeps accepting
\* connections and keeps sending messages: every step of the stream that stays
\* possible is eventually taken
SpecAis ==
    /\ Init
    /\ [][NextAis]_vars
    /\ WF_vars(ConnectAisStream)
    /\ WF_vars(AisConnected)
    /\ WF_vars(AisSubscribed)
    /\ WF_vars(\E kind \in MessageKinds : AisMessage(kind))
    /\ WF_vars(AisSlept)

---------------------------------------------------------------------------
\* Claims about the AIS stream

StopRequested == ~ais.running /\ ais.pc # "idle"

AisReturned == ais.pc = "returned" /\ ais.batch = <<>>

\* C27: after stop_ais_stream() the running connect_ais_stream eventually
\* returns, with nothing left in its batch
C27_StopEndsTheStream == StopRequested ~> AisReturned

---------------------------------------------------------------------------
\* Claims about the stored alert and its detection history

\* C28: under serial passes an active alert carries the level and the score of
\* the last entry of its detection_history, and the levels along the
\* detection_history never decrease
C28_AlertMatchesItsHistory ==
    \A i \in UnresolvedIds(alerts) :
        LET h == History(alerts[i])
        IN  /\ h # <<>>
            /\ h[Len(h)].level = alerts[i].threat_level
            /\ h[Len(h)].score = alerts[i].threat_score
            /\ \A k \in 1..(Len(h) - 1) :
                   LevelValue(h[k].level) <= LevelValue(h[k + 1].level)

\* C28 witness: an active alert that was inserted, escalated by an accepted
\* pass, and then left alone by a refused pass
C28_Witness ==
    /\ HadActive
    /\ last.status = "success"
    /\ last.write = "refused"
    /\ Len(History(ActiveNow)) >= 2
    /\ History(ActiveNow)[1].level # ActiveNow.threat_level

---------------------------------------------------------------------------
\* Claims about the confidence of a pass

\* the confidence of a correlation of one narrative with m movements:
\* the narrative part, the movement part and the time bonus, with or without
\* the geographic bonus
OneNarrativeConfidences(m) ==
    LET base == NarrativeWeight + Min(m * MovementWeight, MovementCap) + TimeBonus
    IN  {base, base + GeoBonus}

\* C29: the confidence a pass returns and stores lies between 30 and 75 and
\* never attains the cap of 95: the selected correlation has exactly one
\* narrative id and at least one movement id, so the narrative part is always
\* 15; calculate_confidence itself stays in that range on such counts
C29_PassConfidenceRange ==
    /\ last.status = "success" =>
           /\ last.confidence \in 30..75
           /\ last.confidence < ConfidenceCap
           /\ \A i \in UnresolvedIds(alerts) :
                  LET meta == alerts[i].correlation_metadata
                  IN  /\ Len(meta.narrative_event_ids) = 1
                      /\ Len(meta.movement_event_ids) >= 1
                      /\ last.write \in {"insert", "update"} =>
                             alerts[i].confidence = last.confidence
                      /\ alerts[i].confidence
                             \in OneNarrativeConfidences(Len(meta.movement_event_ids))
    /\ (Returned("calculate_confidence") /\ fn.args[1] = 1 /\ fn.args[2] >= 1) =>
           Get(fn.res) \in 30..75

\* C29 witness: a pass that correlated two narratives, selected a correlation
\* of one narrative with one movement and a geographic match, and stored the
\* confidence 15 + 5 + 20 + 10
C29_Witness ==
    /\ Returned("correlate_events_batch")
    /\ last.status = "success"
    /\ last.correlations_found = 2
    /\ last.confidence = 50
    /\ UnresolvedIds(alerts) # {}
    /\ ActiveNow.confidence = 50
    /\ Len(ActiveNow.correlation_metadata.movement_event_ids) = 1

\* C29 witness: calculate_confidence(1, 1, no geo_match) returned 30
C29_WitnessLower ==
    /\ Returned("calculate_confidence")
    /\ fn.args = <<1, 1, FALSE>>
    /\ Get(fn.res) = 30

\* C29 witness: calculate_confidence(1, 6, geo_match) returned 75
C29_WitnessUpper ==
    /\ Returned("calculate_confidence")
    /\ fn.args = <<1, 6, TRUE>>
    /\ Get(fn.res) = 75

---------------------------------------------------------------------------
\* Claims about the retention window and the matching window

\* every fetched event was created within the 72 hours before the pass
\* (the pass read the clock one tick before the present state)
InRetention ==
    /\ Fetched
    /\ \A events \in {FetchedNarratives, FetchedMovements} :
           \A i \in 1..Len(events) :
               /\ events[i].created_at.kind = "iso"
               /\ events[i].created_at.secs >= (clock - 1) - 72 * SecondsPerHour
               /\ events[i].created_at.secs <= clock - 1

\* the candidates of the last pass: one correlation per matched narrative
Candidates ==
    LET matches == match_events_by_time_window(FetchedNarratives, FetchedMovements,
                                               CORRELATION_WINDOW_HOURS).matches
    IN  [i \in 1..Len(matches) |-> Correlation(matches[i], clock - 1)]

EveryNarrativeWithEveryMovement ==
    /\ last.status # "no_temporal_matches"
    /\ last.correlations_found = Len(FetchedNarratives)
    /\ \A i \in 1..Len(Candidates) :
           /\ Len(Candidates[i].movement_event_ids) = Len(FetchedMovements)
           /\ Candidates[i].sub_scores.volume_score
                  = Candidates[1].sub_scores.volume_score

====
